---- MODULE Spec2Model ----
(***************************************************************************)
(* A model of photocopier.py: the PhotocopyMLService object (configuration *)
(* merge, lazy model load, analyze_image, health_check) and the main()     *)
(* dispatcher.                                                             *)
(*                                                                         *)
(* Texts produced by the vision-language model are sequences of tokens:    *)
(*   "{" "}" "[" "]" "," ":"   the JSON punctuation characters             *)
(*   " "                       whitespace                                  *)
(*   a member of StringLits    a JSON string literal (quotes included)     *)
(*   "7"                       a JSON number                               *)
(*   "null"                    the JSON null                               *)
(*   "word1", "word2", ...     runs of free text that are no JSON value    *)
(* Python values are records tagged by their type in field t.              *)
(***************************************************************************)
EXTENDS Integers, Sequences, FiniteSets, TLC

\* ------------------------------------------------------------------ bounds
\* the largest number of tags a generated model answer carries
MaxTags == 17
\* the number of service calls made on one service instance
MaxCalls == 3

\* ------------------------------------------------------- program constants
\* tags[:15]
TagLimit == 15

\* --------------------------------------------------------------- utilities
Min(a, b) == IF a < b THEN a ELSE b

None == [t |-> "none"]

\* ------------------------------------------------------------ Python values
PyNum == [t |-> "num"]
PyList(items) == [t |-> "list", a |-> items]
PyDict(f) == [t |-> "dict", o |-> f]
\* a str decoded from a JSON string literal: the literal and its length
PyStr(lit, n) == [t |-> "str", s |-> lit, n |-> n]
\* a str cut out of the raw answer text
PyText(toks) == [t |-> "text", x |-> toks]
EmptyStr == PyStr("", 0)
EmptyList == PyList(<<>>)

\* the JSON string literals of the alphabet and the length of the str each decodes to
TagLit(i) == "tag" \o ToString(i)
TagLits == {TagLit(i) : i \in 1..MaxTags}
StringLits ==
    TagLits \cup
    {"tags", "objects", "scene", "colors", "actions", "other", "cat", "a sentence of twenty",
     "action", "analyze", "health", "image_path", "settings", "length", "long",
     "cat.jpg", "notes.txt", "missing.jpg"}
StrLen(lit) ==
    CASE lit \in {"cat"} -> 3
      [] lit \in {"tags", "long"} -> 4
      [] lit \in {"scene", "other"} -> 5
      [] lit \in {"colors", "action", "length", "health"} -> 6
      [] lit \in {"objects", "actions", "analyze", "cat.jpg"} -> 7
      [] lit \in {"settings"} -> 8
      [] lit \in {"notes.txt"} -> 9
      [] lit \in {"image_path"} -> 10
      [] lit \in {"missing.jpg"} -> 11
      [] lit \in {"a sentence of twenty"} -> 20
      [] lit \in {TagLit(i) : i \in 1..9} -> 4
      [] OTHER -> 5

\* ------------------------------------------------------------- json.loads
RECURSIVE SkipWs(_, _)
SkipWs(s, i) == IF i <= Len(s) /\ s[i] = " " THEN SkipWs(s, i + 1) ELSE i

Bad == [ok |-> FALSE]
Good(v, next) == [ok |-> TRUE, val |-> v, next |-> next]

\* dict[key] = val
DictSet(d, key, val) ==
    [k \in (DOMAIN d) \cup {key} |-> IF k = key THEN val ELSE d[k]]

RECURSIVE ParseValue(_, _)
RECURSIVE ParseItems(_, _, _)
RECURSIVE ParseMembers(_, _, _)

ParseValue(s, i) ==
    LET j == SkipWs(s, i) IN
    IF j > Len(s) THEN Bad
    ELSE CASE s[j] \in StringLits -> Good(PyStr(s[j], StrLen(s[j])), j + 1)
           [] s[j] = "7" -> Good(PyNum, j + 1)
           [] s[j] = "null" -> Good(None, j + 1)
           [] s[j] = "[" ->
                LET k == SkipWs(s, j + 1) IN
                IF k <= Len(s) /\ s[k] = "]" THEN Good(EmptyList, k + 1)
                ELSE ParseItems(s, j + 1, <<>>)
           [] s[j] = "{" ->
                LET k == SkipWs(s, j + 1) IN
                IF k <= Len(s) /\ s[k] = "}" THEN Good(PyDict(<<>>), k + 1)
                ELSE ParseMembers(s, j + 1, <<>>)
           [] OTHER -> Bad

\* after the item v of an array: a comma and the next item, or the closing bracket
items_after(s, acc, v) ==
    IF ~v.ok THEN Bad
    ELSE LET k == SkipWs(s, v.next) IN
         IF k > Len(s) THEN Bad
         ELSE IF s[k] = "," THEN ParseItems(s, k + 1, Append(acc, v.val))
         ELSE IF s[k] = "]" THEN Good(PyList(Append(acc, v.val)), k + 1)
         ELSE Bad

ParseItems(s, i, acc) == items_after(s, acc, ParseValue(s, i))

\* after the value v of the member named key: a comma and the next member, or
\* the closing brace
members_after(s, acc, key, v) ==
    IF ~v.ok THEN Bad
    ELSE LET m == SkipWs(s, v.next) IN
         IF m > Len(s) THEN Bad
         ELSE IF s[m] = "," THEN ParseMembers(s, m + 1, DictSet(acc, key, v.val))
         ELSE IF s[m] = "}" THEN Good(PyDict(DictSet(acc, key, v.val)), m + 1)
         ELSE Bad

ParseMembers(s, i, acc) ==
    LET j == SkipWs(s, i) IN
    IF j > Len(s) \/ s[j] \notin StringLits THEN Bad
    ELSE LET k == SkipWs(s, j + 1) IN
         IF k > Len(s) \/ s[k] # ":" THEN Bad
         ELSE members_after(s, acc, s[j], ParseValue(s, k + 1))

\* the end of json.loads: nothing but whitespace may follow the value v
whole_text(s, v) == IF v.ok /\ SkipWs(s, v.next) > Len(s) THEN v ELSE Bad

\* json.loads(text): one value, whitespace around it, nothing after it;
\* ok = FALSE stands for json.JSONDecodeError
json_loads(s) == whole_text(s, ParseValue(s, 1))

\* dict.get(key, default)
dict_get(d, key, default) == IF key \in DOMAIN d.o THEN d.o[key] ELSE default

\* ------------------------------------------------------------ file system
\* the paths os.path.exists() answers True for
ExistingPaths == {"cat.jpg", "notes.txt", "broken.json", "settings.json", "timeout.json"}
\* the existing paths Image.open() accepts
ImagePaths == {"cat.jpg"}
\* the image paths a caller passes
CallPaths == {"cat.jpg", "notes.txt", "missing.jpg"}
\* the config paths a caller passes: <<>> is "no path"
ConfigArgs == {<<>>, <<"absent.json">>, <<"broken.json">>, <<"settings.json">>, <<"timeout.json">>}

\* os.path.exists(path)
os_path_exists(path) == path \in ExistingPaths

\* json.load(f) of a configuration file: ok = FALSE stands for the exception
config_file(path) ==
    CASE path = "settings.json" ->
           [ok |-> TRUE, val |-> [generationSettings |-> [temperature |-> "0.9", length |-> "long"]]]
      [] path = "timeout.json" ->
           [ok |-> TRUE, val |-> [timeout |-> "30", extra |-> "x"]]
      [] OTHER -> [ok |-> FALSE]

\* ------------------------------------------------------------ _load_config
default_config ==
    [pythonVersion |-> "3.11",
     architecture |-> "arm64",
     model |-> [name |-> "moondream2", repository |-> "vikhyatk/moondream2",
                trustRemoteCode |-> TRUE, device |-> "mps"],
     generationSettings |-> [temperature |-> "0.5", maxTokens |-> "768",
                             topP |-> "0.3", length |-> "short"],
     timeout |-> "60"]

\* dict.update(other)
dict_update(d, other) ==
    [k \in (DOMAIN d) \cup (DOMAIN other) |-> IF k \in DOMAIN other THEN other[k] ELSE d[k]]

_load_config(config_path) ==
    IF config_path # <<>> /\ os_path_exists(config_path[1])
    THEN LET loaded == config_file(config_path[1]) IN
         IF loaded.ok THEN dict_update(default_config, loaded.val) ELSE default_config
    ELSE default_config

\* --------------------------------------------------------------- __init__
\* the service object: its four attributes
__init__(config_path) ==
    [config |-> _load_config(config_path), model |-> None, device |-> None,
     model_loaded |-> FALSE]

\* ------------------------------------------------------------ _load_model
\* _load_model without its first two lines: every call invokes the loader
_load_model_no_memo(self, loaderOk) ==
    IF loaderOk
    THEN [self |-> [self EXCEPT !.model = PyText(<<self.config.model.repository>>),
                                !.model_loaded = TRUE],
          ret |-> TRUE, invoked |-> 1]
    ELSE [self |-> self, ret |-> FALSE, invoked |-> 1]

\* loaderOk: AutoModelForCausalLM.from_pretrained returns (TRUE) or raises (FALSE).
\* ret is the value returned, invoked the number of calls of the library loader.
_load_model(self, loaderOk) ==
    IF self.model_loaded THEN [self |-> self, ret |-> TRUE, invoked |-> 0]
    ELSE IF loaderOk
         THEN [self |-> [self EXCEPT !.model = PyText(<<self.config.model.repository>>),
                                     !.model_loaded = TRUE],
               ret |-> TRUE, invoked |-> 1]
         ELSE [self |-> self, ret |-> FALSE, invoked |-> 1]

\* ------------------------------------------------------------ text helpers
\* str.strip()
RECURSIVE lstrip(_)
lstrip(s) == IF s # <<>> /\ s[1] = " " THEN lstrip(Tail(s)) ELSE s
RECURSIVE rstrip(_)
rstrip(s) == IF s # <<>> /\ s[Len(s)] = " " THEN rstrip(SubSeq(s, 1, Len(s) - 1)) ELSE s
strip(s) == rstrip(lstrip(s))

\* str.split(","): the pieces between the commas, in order (one more piece than
\* there are commas)
split(s) ==
    LET commas == {i \in 1..Len(s) : s[i] = ","}
        \* the position of the k-th comma; 0 before the first, Len(s) + 1 after the last
        at(k) == IF k = 0 THEN 0
                 ELSE IF k > Cardinality(commas) THEN Len(s) + 1
                 ELSE CHOOSE i \in commas : Cardinality({j \in commas : j <= i}) = k
    IN [k \in 1..(Cardinality(commas) + 1) |-> SubSeq(s, at(k - 1) + 1, at(k) - 1)]

\* [tag.strip() for tag in tags_response.split(",") if tag.strip()]
nonempty(piece) == strip(piece) # <<>>
stripped(pieces) == [k \in 1..Len(pieces) |-> PyText(strip(pieces[k]))]
\* [tag for tag in tags_response.split(",") if tag.strip()]
split_tags_unstripped(tags_response) ==
    [k \in 1..Len(SelectSeq(split(tags_response), nonempty)) |->
        PyText(SelectSeq(split(tags_response), nonempty)[k])]
split_tags(tags_response) == stripped(SelectSeq(split(tags_response), nonempty))

\* re.search(r'\{.*\}', text, re.DOTALL): the leftmost match, and greedy, so it
\* runs from the first "{" to the last "}" of the text
re_search(text) ==
    LET opens == {i \in 1..Len(text) : text[i] = "{"}
        closes == {j \in 1..Len(text) : text[j] = "}"}
    IN
    IF opens = {} THEN [found |-> FALSE]
    ELSE LET first == CHOOSE i \in opens : \A k \in opens : i <= k
             after == {j \in closes : j > first}
         IN IF after = {} THEN [found |-> FALSE]
            ELSE LET last == CHOOSE j \in after : \A k \in after : k <= j
                 IN [found |-> TRUE, group |-> SubSeq(text, first, last)]

\* the fallback of both branches: comma-separated tags, empty structured fields
fallback_fields(tags_response) ==
    [tags |-> PyList(split_tags(tags_response)), objects |-> EmptyList, scene |-> EmptyStr,
     colors |-> EmptyList, actions |-> EmptyList]

\* the if branch of the try block: tags_data is what json.loads gave for the
\* match, the except clause taken when it raised
matched_fields(tags_response, tags_data) ==
    IF tags_data.ok
    THEN [tags |-> dict_get(tags_data.val, "tags", EmptyList),
          objects |-> dict_get(tags_data.val, "objects", EmptyList),
          scene |-> dict_get(tags_data.val, "scene", EmptyStr),
          colors |-> dict_get(tags_data.val, "colors", EmptyList),
          actions |-> dict_get(tags_data.val, "actions", EmptyList)]
    ELSE fallback_fields(tags_response)

\* the if/else on the match
searched_fields(tags_response, json_match) ==
    IF json_match.found
    THEN matched_fields(tags_response, json_loads(json_match.group))
    ELSE fallback_fields(tags_response)

\* the try block that parses the tags response
parse_tags_response(tags_response) == searched_fields(tags_response, re_search(tags_response))

\* tags, not cut
slice_tags_all(tags) ==
    IF tags.t \in {"list", "str"} THEN [ok |-> TRUE, val |-> tags] ELSE [ok |-> FALSE]

\* tags[:15]: a slice of a list or of a str; anything else raises (ok = FALSE)
slice_tags(tags) ==
    CASE tags.t = "list" -> [ok |-> TRUE, val |-> PyList(SubSeq(tags.a, 1, Min(Len(tags.a), TagLimit)))]
      [] tags.t = "str" -> [ok |-> TRUE, val |-> PyStr(tags.s, Min(tags.n, TagLimit))]
      [] OTHER -> [ok |-> FALSE]

\* len(value) of a list or a str
py_len(v) == IF v.t = "list" THEN Len(v.a) ELSE v.n

\* ------------------------------------------------------------ analyze_image
\* bool(custom_settings)
truthy(v) ==
    CASE v.t = "none" -> FALSE
      [] v.t = "dict" -> DOMAIN v.o # {}
      [] v.t = "list" -> v.a # <<>>
      [] v.t = "str" -> v.n > 0
      [] OTHER -> TRUE

\* dict.pop(key, default): the dict without the key
dict_pop(d, key) == [k \in (DOMAIN d) \ {key} |-> d[k]]

\* what a call gives back: the service after the call, the dict returned, the
\* number of loader invocations and of _load_model calls made during the call,
\* and whether the call got the model's answers to both prompts
Outcome(self, result, invoked, load_calls) ==
    [self |-> self, result |-> result, invoked |-> invoked, load_calls |-> load_calls,
     answered |-> FALSE]
Answered(o) == [o EXCEPT !.answered = TRUE]

analysis_error(msg) == [status |-> "analysis_error", error |-> msg]

\* the return statement: f the parsed fields, sliced what tags[:15] gave
success_result(self, image_path, f, sliced, invoked) ==
    IF ~sliced.ok
    THEN Answered(Outcome(self, analysis_error("object is not subscriptable"), invoked, 1))
    ELSE Answered(Outcome(self,
                 [status |-> "success",
                  caption |-> "a caption",
                  tags |-> sliced.val,
                  analysis |-> [objects |-> f.objects, scene |-> f.scene,
                                colors |-> f.colors, actions |-> f.actions],
                  image_path |-> image_path,
                  model_info |-> [name |-> self.config.model.name,
                                  repository |-> self.config.model.repository]],
                 invoked, 1))

\* from the parse of the tags response to the return
parsed_result(self, image_path, f, invoked) ==
    success_result(self, image_path, f, slice_tags(f.tags), invoked)

\* the two queries and what follows them
query_model(self, image_path, env, invoked) ==
    IF ~env.queryOk
    THEN Outcome(self, analysis_error("query failed"), invoked, 1)
    ELSE parsed_result(self, image_path, parse_tags_response(strip(env.answer)), invoked)

\* settings = custom_settings or self.config.get("generationSettings", {})
\* length = settings.pop("length", "short")
\* pop acts on the dict that settings names: the caller's dict, or the one held
\* in self.config
pop_length(self, custom_settings) ==
    IF truthy(custom_settings) THEN self
    ELSE [self EXCEPT !.config.generationSettings = dict_pop(@, "length")]

\* analyze_image once _load_model has been called and gave lm
with_model(lm, image_path, custom_settings, env) ==
    IF ~lm.ret
    THEN Outcome(lm.self, [status |-> "model_error", error |-> "Failed to load ML model"],
                 lm.invoked, 1)
    ELSE IF truthy(custom_settings) /\ custom_settings.t # "dict"
    THEN \* list.pop("length", "short") raises TypeError
         Outcome(lm.self, analysis_error("pop expected at most 1 argument"), lm.invoked, 1)
    ELSE query_model(pop_length(lm.self, custom_settings), image_path, env, lm.invoked)

\* analyze_image with "Ensure model is loaded" moved before "Load image"
analyze_image_load_first(self, image_path, custom_settings, env) ==
    IF ~os_path_exists(image_path)
    THEN Outcome(_load_model(self, env.loaderOk).self,
                 [status |-> "file_error", error |-> "Image file not found"],
                 _load_model(self, env.loaderOk).invoked, 1)
    ELSE IF image_path \notin ImagePaths
    THEN Outcome(_load_model(self, env.loaderOk).self,
                 analysis_error("cannot identify image file"),
                 _load_model(self, env.loaderOk).invoked, 1)
    ELSE with_model(_load_model(self, env.loaderOk), image_path, custom_settings, env)

\* env.loaderOk: the library loader returns; env.queryOk: model.query returns;
\* env.answer: the answer of the model to the tags prompt
analyze_image(self, image_path, custom_settings, env) ==
    IF ~os_path_exists(image_path)
    THEN Outcome(self, [status |-> "file_error", error |-> "Image file not found"], 0, 0)
    ELSE IF image_path \notin ImagePaths
    THEN \* Image.open raises
         Outcome(self, analysis_error("cannot identify image file"), 0, 0)
    ELSE with_model(_load_model(self, env.loaderOk), image_path, custom_settings, env)

\* ------------------------------------------------------------- health_check
health_result(lm) ==
    IF ~lm.ret
    THEN Outcome(lm.self,
                 [status |-> "not_healthy", model_loaded |-> lm.self.model_loaded,
                  device |-> lm.self.device, config |-> lm.self.config],
                 lm.invoked, 1)
    ELSE Outcome(lm.self,
                 [status |-> "healthy", model_loaded |-> lm.self.model_loaded,
                  device |-> lm.self.device, config |-> lm.self.config],
                 lm.invoked, 1)

\* a health check that reports the state of the service and loads nothing
health_check_no_load(self, loaderOk) ==
    health_result([self |-> self, ret |-> self.model_loaded, invoked |-> 0])

health_check(self, loaderOk) == health_result(_load_model(self, loaderOk))

\* --------------------------------------------------------------------- main
\* what main() comes to: the service it built, the documents printed, the value
\* returned (<<>> when an exception left main instead), the branch taken and
\* the loader invocations and _load_model calls made
Returned(o, docs, code, branch) ==
    [self |-> o.self, out |-> docs, code |-> <<code>>, raised |-> FALSE, branch |-> branch,
     invoked |-> o.invoked, load_calls |-> o.load_calls]

\* return 0
exit_code_zero(result) == 0

\* return 0 if result.get("status") == "success" else 1
exit_code(result) == IF result.status = "success" THEN 0 ELSE 1

\* print the result o.result of analyze_image; return 0 if it is a success, else 1
return_analysis(o, branch) == Returned(o, <<o.result>>, exit_code(o.result), branch)
\* print the result o.result of health_check; return 0
return_health(o, branch) == Returned(o, <<o.result>>, 0, branch)

\* the try block of the else branch of main, every print of it succeeding: one
\* JSON document read from stdin and dispatched on its "action". image_path is a
\* str in every document of StdinTexts that carries one.
dispatch_action(service, input_data, env) ==
    IF ~input_data.ok
    THEN \* except json.JSONDecodeError
         Returned(Outcome(service, None, 0, 0),
                  <<[status |-> "json_error", error |-> "Invalid JSON input"]>>,
                  1, "interactive")
    ELSE IF input_data.val.t # "dict"
    THEN \* input_data.get raises AttributeError: except Exception
         Returned(Outcome(service, None, 0, 0),
                  <<[status |-> "unexpected_error", error |-> "Unexpected error"]>>,
                  1, "interactive")
    ELSE IF dict_get(input_data.val, "action", None) = PyStr("analyze", StrLen("analyze"))
    THEN IF ~truthy(dict_get(input_data.val, "image_path", None))
         THEN Returned(Outcome(service, None, 0, 0),
                       <<[status |-> "missing_image_path", error |-> "image_path required"]>>,
                       1, "interactive")
         ELSE return_analysis(analyze_image(service,
                                            dict_get(input_data.val, "image_path", None).s,
                                            dict_get(input_data.val, "settings", None), env),
                              "interactive")
    ELSE IF dict_get(input_data.val, "action", None) = PyStr("health", StrLen("health"))
    THEN return_health(health_check(service, env.loaderOk), "interactive")
    ELSE Returned(Outcome(service, None, 0, 0),
                  <<[status |-> "unknown_action", error |-> "Unknown action"]>>,
                  1, "interactive")

\* a print of the document b carries: with env.printOk = FALSE (stdout closed)
\* print raises, nothing is printed and nothing is returned
print_or_raise(b, env) ==
    IF env.printOk THEN b
    ELSE [b EXCEPT !.out = <<>>, !.code = <<>>, !.raised = TRUE]

\* the else branch of main. A print that raises inside the try block is caught
\* by "except Exception", whose own print raises in turn and leaves main.
interactive_mode(service, stdin_text, env) ==
    print_or_raise(dispatch_action(service, json_loads(stdin_text), env), env)

\* parser.add_argument("--mode", choices=["analyze", "health"], default="analyze"):
\* args.mode when the flag is given (<<m>>) and when it is not (<<>>)
args_mode(mode_flag) == IF mode_flag = <<>> THEN "analyze" ELSE mode_flag[1]

\* main once the arguments are parsed and the service is built. The prints of
\* the health and analyze branches are outside any try block: one that raises
\* leaves main.
dispatch(mode, service, argv, stdin_text, env) ==
    IF mode = "health"
    THEN print_or_raise(return_health(health_check(service, env.loaderOk), "health"), env)
    ELSE IF mode = "analyze"
    THEN IF argv.image = <<>> \/ argv.image = <<"">>
         THEN print_or_raise(Returned(Outcome(service, None, 0, 0),
                                      <<[status |-> "missing_image",
                                         error |-> "Image path required for analysis mode"]>>,
                                      1, "analyze"), env)
         ELSE print_or_raise(return_analysis(analyze_image(service, argv.image[1], None, env),
                                             "analyze"), env)
    ELSE interactive_mode(service, stdin_text, env)

main(argv, stdin_text, env) ==
    dispatch(args_mode(argv.mode), __init__(argv.config), argv, stdin_text, env)

\* ------------------------------------------------------------ model answers
RECURSIVE Join(_, _)
Join(parts, sep) ==
    IF parts = <<>> THEN <<>>
    ELSE IF Len(parts) = 1 THEN parts[1]
    ELSE parts[1] \o sep \o Join(Tail(parts), sep)

Word(i) == "word" \o ToString(i)
\* word1, word2, ..., wordn
CommaList(n) == Join([i \in 1..n |-> <<Word(i)>>], <<",", " ">>)
\* ["tag1", "tag2", ..., "tagn"]
TagArray(n) == <<"[">> \o Join([i \in 1..n |-> <<TagLit(i)>>], <<",", " ">>) \o <<"]">>
Member(key, value) == <<key, ":", " ">> \o value
Object(members) == <<"{">> \o Join(members, <<",", " ">>) \o <<"}">>
\* the object the tags prompt asks for, with n tags
FullObject(n) ==
    Object(<<Member("tags", TagArray(n)), Member("objects", <<"[", "cat", "]">>),
             Member("scene", <<"a sentence of twenty">>),
             Member("colors", <<"[", "other", ",", "cat", "]">>),
             Member("actions", <<"[", "]">>)>>)

\* well-formed JSON objects of other shapes
OtherObjects ==
    {Object(<<>>),
     Object(<<Member("scene", <<"cat">>)>>),
     Object(<<Member("tags", <<"cat">>), Member("scene", <<"cat">>)>>),
     Object(<<Member("tags", <<"a sentence of twenty">>)>>),
     Object(<<Member("tags", <<"7">>), Member("objects", <<"[", "cat", "]">>)>>),
     Object(<<Member("tags", <<"null">>)>>),
     Object(<<Member("tags", Object(<<Member("other", <<"cat">>)>>))>>),
     Object(<<Member("other", Object(<<Member("scene", <<"cat">>)>>)),
              Member("objects", <<"[", "cat", "]">>), Member("tags", TagArray(2))>>),
     Object(<<Member("scene", <<"cat">>), Member("scene", <<"other">>)>>)}

\* texts with braces that are no JSON object
Malformed ==
    {<<"{", "word1", "}">>,
     <<"{", "tags", ":", "[", "cat", ",", "]", "}">>,
     <<"{", "tags", ":", "[", "cat", "]">>,
     <<"}", " ", "word1", ",", "word2", " ", "{">>,
     <<"{", "tags", ":", "cat", "}", "{", "scene", ":", "cat", "}">>}

\* what the model writes before and after the object
Prefixes == {<<>>, <<" ">>, <<"word1", ":", " ">>, <<"{", "word1", "}", " ">>}
Suffixes == {<<>>, <<" ">>, <<" ", "word2", ",", "word3">>, <<" ", ":", "}">>}

Answers ==
    {CommaList(n) : n \in 0..MaxTags}
    \cup {<<"word1", ",", " ", ",", ",", " ", "word2", " ", "word3", ",">>}
    \cup {FullObject(n) : n \in 0..MaxTags}
    \cup {p \o b \o s : p \in Prefixes, b \in OtherObjects \cup {FullObject(MaxTags)}, s \in Suffixes}
    \cup Malformed

\* the answers used where the parse is not what is looked at
SessionAnswers ==
    {CommaList(2), FullObject(2), Object(<<Member("tags", <<"7">>)>>)}

\* --------------------------------------------------------------- the callers
\* the custom_settings a caller passes
CustomSettings ==
    {None, PyDict(<<>>), PyDict([length |-> "long"]), PyDict([temperature |-> "0.1"]),
     PyList(<<PyNum>>)}

\* the command lines: each flag given (<<value>>) or not (<<>>)
Argvs ==
    [mode : {<<>>, <<"analyze">>, <<"health">>},
     image : {<<>>, <<"cat.jpg">>, <<"notes.txt">>, <<"missing.jpg">>},
     config : ConfigArgs]

\* the texts on standard input
StdinTexts ==
    {<<>>,
     <<"{", "action", ":", "health", "}">>,
     <<"{", "action", ":", "analyze", ",", "image_path", ":", "cat.jpg", "}">>,
     <<"{", "action", ":", "analyze", "}">>,
     <<"{", "action", ":", "other", "}">>,
     <<"[", "]">>}

\* -------------------------------------------------------------------- state
VARIABLES
    config, model, device, model_loaded,  \* the attributes of the service object
    tagsAnswer,     \* what the model answers to the tags prompt
    pc,             \* "lib": the service is called directly; "start", "returned", "raised": main
    argv, stdin,    \* the command line and the text on standard input of main
    stdout,         \* the documents main printed
    exitCode,       \* <<code>> once main returned
    branch,         \* the branch of main that ran
    config0,        \* history: the configuration __init__ produced
    calls,          \* history: the number of analyze_image and health_check calls
    loaderCalls,    \* history: the number of invocations of the library loader
    loadCalls,      \* history: the number of _load_model calls
    last            \* history: the last call, its arguments and what it gave back

service_vars == <<config, model, device, model_loaded>>
main_vars == <<pc, argv, stdin, stdout, exitCode, branch>>
vars == <<config, model, device, model_loaded, tagsAnswer, pc, argv, stdin, stdout,
          exitCode, branch, config0, calls, loaderCalls, loadCalls, last>>

\* the service object
Self == [config |-> config, model |-> model, device |-> device, model_loaded |-> model_loaded]

\* the service object becomes s
SetSelf(s) ==
    /\ config' = s.config
    /\ model' = s.model
    /\ device' = s.device
    /\ model_loaded' = s.model_loaded

\* the history of one call
Called(op, image_path, custom_settings, loaderOk, o) ==
    /\ SetSelf(o.self)
    /\ calls' = calls + 1
    /\ loaderCalls' = loaderCalls + o.invoked
    /\ loadCalls' = loadCalls + o.load_calls
    /\ last' = [op |-> op, image_path |-> image_path, custom_settings |-> custom_settings,
                loader |-> IF o.invoked = 0 THEN "not invoked"
                           ELSE IF loaderOk THEN "returned" ELSE "raised",
                was_loaded |-> model_loaded, answered |-> o.answered,
                invoked |-> o.invoked, load_calls |-> o.load_calls, result |-> o.result]

\* a service constructed by a caller that uses it as a library
InitService(answers) ==
    /\ \E config_path \in ConfigArgs :
         LET s == __init__(config_path) IN
         /\ config = s.config
         /\ model = s.model
         /\ device = s.device
         /\ model_loaded = s.model_loaded
         /\ config0 = s.config
    /\ tagsAnswer \in answers
    /\ pc = "lib"
    /\ argv = None
    /\ stdin = <<>>
    /\ stdout = <<>>
    /\ exitCode = <<>>
    /\ branch = "none"
    /\ calls = 0
    /\ loaderCalls = 0
    /\ loadCalls = 0
    /\ last = [op |-> "none"]

Init == InitService(SessionAnswers)

\* service.analyze_image(image_path, custom_settings)
AnalyzeImage ==
    /\ pc = "lib"
    /\ calls < MaxCalls
    /\ \E image_path \in CallPaths, custom_settings \in CustomSettings,
          loaderOk \in BOOLEAN, queryOk \in BOOLEAN :
         Called("analyze_image", image_path, custom_settings, loaderOk,
                analyze_image(Self, image_path, custom_settings,
                              [loaderOk |-> loaderOk, queryOk |-> queryOk,
                               answer |-> tagsAnswer, printOk |-> TRUE]))
    /\ UNCHANGED <<tagsAnswer, main_vars, config0>>

\* service.health_check()
HealthCheck ==
    /\ pc = "lib"
    /\ calls < MaxCalls
    /\ \E loaderOk \in BOOLEAN :
         Called("health_check", "", None, loaderOk, health_check(Self, loaderOk))
    /\ UNCHANGED <<tagsAnswer, main_vars, config0>>

Next == AnalyzeImage \/ HealthCheck

Spec == Init /\ [][Next]_vars

\* ---------------------------------------------- one call, every model answer
InitFresh == InitService(Answers)

\* the first analyze_image call on a service
FirstAnalyzeImage == calls = 0 /\ AnalyzeImage

NextFresh == FirstAnalyzeImage

ParseSpec == InitFresh /\ [][NextFresh]_vars

\* ------------------------------------------------------- one run of main()
InitMain ==
    /\ config = None
    /\ model = None
    /\ device = None
    /\ model_loaded = FALSE
    /\ config0 = None
    /\ tagsAnswer \in SessionAnswers
    /\ pc = "start"
    /\ argv \in Argvs
    /\ stdin \in StdinTexts
    /\ stdout = <<>>
    /\ exitCode = <<>>
    /\ branch = "none"
    /\ calls = 0
    /\ loaderCalls = 0
    /\ loadCalls = 0
    /\ last = [op |-> "none"]

\* main came to m
Exited(m) ==
    /\ SetSelf(m.self)
    /\ config0' = __init__(argv.config).config
    /\ pc' = IF m.raised THEN "raised" ELSE "returned"
    /\ stdout' = m.out
    /\ exitCode' = m.code
    /\ branch' = m.branch
    /\ calls' = calls + m.load_calls
    /\ loaderCalls' = loaderCalls + m.invoked
    /\ loadCalls' = loadCalls + m.load_calls

\* sys.exit(main())
Main ==
    /\ pc = "start"
    /\ \E loaderOk \in BOOLEAN, queryOk \in BOOLEAN, printOk \in BOOLEAN :
         Exited(main(argv, stdin, [loaderOk |-> loaderOk, queryOk |-> queryOk,
                                   answer |-> tagsAnswer, printOk |-> printOk]))
    /\ UNCHANGED <<tagsAnswer, argv, stdin, last>>

NextMain == Main

MainSpec == InitMain /\ [][NextMain]_vars

\* ================================================================ properties
\* ---------------------------------------------------- service calls (Spec)

\* C1: an analyze_image call whose image path does not exist returns status
\* file_error and makes no _load_model call and no loader invocation, whatever
\* the state of the service and the calls made before.
C1_MissingPathIsFileError ==
    (last.op = "analyze_image" /\ last.image_path \notin ExistingPaths)
        => /\ last.result.status = "file_error"
           /\ last.load_calls = 0
           /\ last.invoked = 0

\* C1 witness: a missing path passed to a service that earlier calls left loaded
C1_Witness ==
    /\ last.op = "analyze_image"
    /\ last.image_path = "missing.jpg"
    /\ last.result.status = "file_error"
    /\ calls >= 2
    /\ model_loaded

\* C2 as stated: once _load_model has been called, every later call of it is a
\* no-op that returns success without invoking the loader.
C2_EveryLaterLoadIsNoOp ==
    (loadCalls >= 2 /\ last.load_calls = 1) => (last.invoked = 0 /\ model_loaded)

\* C2 amended: success alone is memoized. A _load_model call made after a load
\* succeeded invokes no loader and returns True; one made while no load has
\* succeeded invokes the loader once, and leaves the service loaded exactly
\* when the loader returned.
C2_SuccessIsMemoized ==
    (last.op # "none" /\ last.load_calls = 1)
        => IF last.was_loaded
           THEN last.invoked = 0 /\ model_loaded
           ELSE last.invoked = 1 /\ (model_loaded <=> last.loader = "returned")

\* C2 witness: a second _load_model call, after the one that loaded the model
C2_Witness ==
    /\ loadCalls >= 2
    /\ loaderCalls = 1
    /\ last.load_calls = 1
    /\ last.was_loaded
    /\ last.invoked = 0

\* C3: the health_check made first on a fresh service invokes the loader
\* exactly once; it reports healthy with model_loaded true exactly when the
\* loader returned, and not_healthy with model_loaded false otherwise.
C3_FirstHealthCheckLoadsOnce ==
    (calls = 1 /\ last.op = "health_check")
        => /\ last.invoked = 1
           /\ loaderCalls = 1
           /\ IF last.loader = "returned"
              THEN last.result.status = "healthy" /\ last.result.model_loaded = TRUE
              ELSE last.result.status = "not_healthy" /\ last.result.model_loaded = FALSE

\* C3 witness: a first health check whose load attempt failed
C3_Witness ==
    /\ calls = 1
    /\ last.op = "health_check"
    /\ last.loader = "raised"
    /\ last.result.status = "not_healthy"

\* C10 as stated: the configuration a health_check echoes is the one the loader
\* produced at construction, whatever analyze_image calls came before.
C10_ConfigUnchanged ==
    last.op = "health_check" => last.result.config = config0

\* --------------------------------- one call, every model answer (ParseSpec)

\* C4: a result with status success carries at most 15 tags, whatever the model
\* answered to the tags prompt.
C4_AtMostFifteenTags ==
    (last.op = "analyze_image" /\ last.result.status = "success")
        => py_len(last.result.tags) <= 15

\* C4 witness: an answer whose JSON object lists more than 15 tags, cut to 15
C4_Witness ==
    /\ last.op = "analyze_image"
    /\ last.result.status = "success"
    /\ tagsAnswer = FullObject(MaxTags)
    /\ MaxTags > 15
    /\ py_len(last.result.tags) = 15

\* the well-formed JSON objects embedded in a text: the stretches from a "{" to
\* a "}" that json.loads accepts
Embedded(text) ==
    {e \in (1..Len(text)) \X (1..Len(text)) :
        /\ e[1] < e[2]
        /\ text[e[1]] = "{"
        /\ text[e[2]] = "}"
        /\ json_loads(SubSeq(text, e[1], e[2])).ok}

\* the fields of a result are those of the JSON object d, with the empty default
\* for a key d lacks, and the tags cut to 15
FieldsFrom(result, d) ==
    /\ result.analysis.objects = dict_get(d, "objects", EmptyList)
    /\ result.analysis.scene = dict_get(d, "scene", EmptyStr)
    /\ result.analysis.colors = dict_get(d, "colors", EmptyList)
    /\ result.analysis.actions = dict_get(d, "actions", EmptyList)
    /\ dict_get(d, "tags", EmptyList).t \in {"list", "str"}
    /\ py_len(result.tags) = Min(15, py_len(dict_get(d, "tags", EmptyList)))
    /\ \/ result.tags.t # "list"
       \/ /\ dict_get(d, "tags", EmptyList).t = "list"
          /\ \A k \in 1..Len(result.tags.a) :
                result.tags.a[k] = dict_get(d, "tags", EmptyList).a[k]

\* C5 as stated: when the tags answer contains a well-formed JSON object, with
\* any text before and after it, a successful result takes its tags and its
\* structured fields from that object.
C5_FieldsFromEmbeddedObject ==
    (last.op = "analyze_image" /\ last.result.status = "success" /\ Embedded(tagsAnswer) # {})
        => \E e \in Embedded(tagsAnswer) :
              FieldsFrom(last.result, json_loads(SubSeq(tagsAnswer, e[1], e[2])).val)

\* the tags the fallback is to give: the pieces of the text between its commas,
\* without the whitespace around them, the empty ones dropped, the first 15 kept
RECURSIVE PiecesOf(_)
PiecesOf(text) ==
    IF \A i \in 1..Len(text) : text[i] # "," THEN <<text>>
    ELSE LET c == CHOOSE i \in 1..Len(text) : text[i] = "," /\ \A j \in 1..(i - 1) : text[j] # ","
         IN <<SubSeq(text, 1, c - 1)>> \o PiecesOf(SubSeq(text, c + 1, Len(text)))
Blank(piece) == \A i \in 1..Len(piece) : piece[i] = " "
NotBlank(piece) == ~Blank(piece)
Trimmed(piece) ==
    LET solid == {i \in 1..Len(piece) : piece[i] # " "}
    IN SubSeq(piece, CHOOSE i \in solid : \A j \in solid : i <= j,
                     CHOOSE i \in solid : \A j \in solid : j <= i)
ExpectedTags(text) ==
    [k \in 1..Min(15, Len(SelectSeq(PiecesOf(text), NotBlank))) |->
        PyText(Trimmed(SelectSeq(PiecesOf(text), NotBlank)[k]))]

\* no "{" of the text has a "}" after it: the pattern matches nowhere
NothingLocated(text) ==
    ~\E i, j \in 1..Len(text) : i < j /\ text[i] = "{" /\ text[j] = "}"
\* the text the pattern locates: from the first "{" to the last "}"
LocatedText(text) ==
    SubSeq(text, CHOOSE i \in 1..Len(text) : text[i] = "{" /\ \A j \in 1..(i - 1) : text[j] # "{",
                 CHOOSE i \in 1..Len(text) : text[i] = "}" /\ \A j \in (i + 1)..Len(text) : text[j] # "}")
FallsBack(text) == NothingLocated(text) \/ ~json_loads(LocatedText(text)).ok

\* C6: when no JSON object is located in the tags answer, or the located text
\* is not JSON, the call that got the answer returns status success with the
\* comma-separated pieces of the answer as tags (trimmed, the empty ones
\* dropped, the first 15) and with empty objects, scene, colors and actions.
C6_FallbackToCommaSeparatedTags ==
    (last.op = "analyze_image" /\ last.answered /\ FallsBack(tagsAnswer))
        => /\ last.result.status = "success"
           /\ last.result.tags = PyList(ExpectedTags(tagsAnswer))
           /\ last.result.analysis.objects = EmptyList
           /\ last.result.analysis.scene = EmptyStr
           /\ last.result.analysis.colors = EmptyList
           /\ last.result.analysis.actions = EmptyList

\* C6 witness: a located text that is not JSON, its pieces returned as tags
C6_Witness ==
    /\ last.op = "analyze_image"
    /\ last.answered
    /\ ~NothingLocated(tagsAnswer)
    /\ ~json_loads(LocatedText(tagsAnswer)).ok
    /\ last.result.status = "success"
    /\ Len(last.result.tags.a) >= 2

\* ------------------------------------------------- one run of main (MainSpec)

\* C7 as stated: no exception leaves main; every run ends with main returning
\* an exit code after it printed a JSON document.
C7_NoExceptionLeavesMain ==
    pc # "start" => (pc = "returned" /\ stdout # <<>> /\ exitCode \in {<<0>>, <<1>>})

\* C8 as stated: main runs the interactive mode exactly when no --mode flag is
\* given, and the analyze and health modes only when --mode selects them.
C8_InteractiveIsTheDefault ==
    pc # "start" => (branch = "interactive" <=> argv.mode = <<>>)

\* C9 as stated: main returns 0 only after an analysis with status success or
\* a health check with status healthy, and 1 whenever the document it printed
\* reports anything else.
C9_ZeroOnlyOnSuccessOrHealthy ==
    pc = "returned"
        => /\ exitCode = <<0>> => stdout[1].status \in {"success", "healthy"}
           /\ stdout[1].status \notin {"success", "healthy"} => exitCode = <<1>>

\* C9 amended: main returns 0 exactly when the document it printed is an
\* analysis result with status success or a health result, healthy or
\* not_healthy; it returns 1 after every other document.
C9_ZeroOnSuccessOrAnyHealth ==
    pc = "returned"
        => /\ Len(stdout) = 1
           /\ exitCode \in {<<0>>, <<1>>}
           /\ exitCode = <<0>> <=> stdout[1].status \in {"success", "healthy", "not_healthy"}

\* C9 witness: a health run whose load failed returned 0; the analyze runs that
\* returned 1 are checked by the formula in every state they reach
C9_Witness ==
    /\ pc = "returned"
    /\ branch = "health"
    /\ stdout[1].status = "not_healthy"
    /\ exitCode = <<0>>
====
